---- MODULE Spec2Model ----
(***************************************************************************)
(* A model of src/lib.rs: LruCache<K, V>, a fixed-capacity key-value cache *)
(* with least-recently-used eviction.  The cache state (a HashMap and a    *)
(* VecDeque of keys) sits behind one std::sync::RwLock; get and put take   *)
(* the lock in write mode, len takes it in read mode.                      *)
(*                                                                         *)
(* Every statement executed under the lock is one action, so that what a   *)
(* thread could observe between two statements of another thread is a      *)
(* state of the model.  A call and the lock acquisition that opens it are  *)
(* one action: a call that finds the lock taken blocks in write() or       *)
(* read(), which the model shows as that action not being enabled.         *)
(***************************************************************************)
EXTENDS Naturals, Sequences, FiniteSets

\* ----------------------------------------------------------------- bounds
NumThreads == 2
NumKeys == 3
NumVals == 2
MaxCap == 2

Threads == 1..NumThreads
Keys == 1..NumKeys
Values == 1..NumVals
Capacities == 0..MaxCap

\* ------------------------------------------------------------- Option<T>
None == << >>
Some(x) == <<x>>
IsSome(o) == o # None
Unwrap(o) == o[1]

VARIABLES
    built,      \* "no" before LruCache::new, then "yes", or "panicked"
    capacity,   \* LruCache.capacity
    map,        \* CacheState.map: a function from the resident keys to values
    order,      \* CacheState.order: the keys, front (index 1) to back
    writers,    \* the threads holding a write guard of LruCache.inner
    readers,    \* the threads holding a read guard of LruCache.inner
    poisoned,   \* LruCache.inner's poison flag: a writer panicked holding its guard
    pc,         \* per thread: the statement it executes next
    key,        \* per thread: the key argument of its call (0: none)
    value,      \* per thread: put's value argument, or get's cloned value (0: none)
    lru_key,    \* per thread: the result of order.pop_front() in put
    ret,        \* per thread: the value its call is about to return
    pre,        \* history: per thread, the state its guard was granted on
    committed,  \* history: the state left by the last released write guard
    stamp,      \* history: the resident keys ranked by their most recent touch
    lastPut,    \* history: per key, the value of the last completed put
    recentPut,  \* history: the key of the last completed put (0: none yet)
    ll,         \* reference: the linked-list cache, run on the same calls
    llout       \* reference: per thread, what the linked-list cache answered

vars == <<built, capacity, map, order, writers, readers, poisoned, pc, key, value,
          lru_key, ret, pre, committed, stamp, lastPut, recentPut, ll, llout>>

cacheVars == <<built, capacity>>
lockVars == <<writers, readers, poisoned>>
histVars == <<pre, committed, stamp, lastPut, recentPut>>
refVars == <<ll, llout>>

\* ---------------------------------------------------- HashMap<K, V> calls
EmptyMap == [k \in {} |-> 0]
\* a membership test that never finds the key
ContainsKeyNever(m, k) == FALSE

ContainsKey(m, k) == k \in DOMAIN m
MapGet(m, k) == IF k \in DOMAIN m THEN Some(m[k]) ELSE None
\* an insert that keeps the value of a key already present (or_insert)
MapInsertKeepsOld(m, k, v) ==
    [x \in (DOMAIN m) \cup {k} |-> IF x \in DOMAIN m THEN m[x] ELSE v]

MapInsert(m, k, v) == [x \in (DOMAIN m) \cup {k} |-> IF x = k THEN v ELSE m[x]]
\* a removal that leaves the table as it was
MapRemoveNothing(m, k) == m

MapRemove(m, k) == [x \in (DOMAIN m) \ {k} |-> m[x]]
MapLen(m) == Cardinality(DOMAIN m)

\* ------------------------------------------------------ VecDeque<K> calls
\* order.iter().position(|k| k == key): the first index holding key
Position(q, k) ==
    IF \E i \in 1..Len(q) : q[i] = k
    THEN Some(CHOOSE i \in 1..Len(q) : q[i] = k /\ \A j \in 1..(i - 1) : q[j] # k)
    ELSE None

\* a removal that is off by one position (pos + 1)
RemoveAtNext(q, pos) ==
    IF pos + 1 \in 1..Len(q)
    THEN [i \in 1..(Len(q) - 1) |-> IF i < pos + 1 THEN q[i] ELSE q[i + 1]]
    ELSE q

\* order.remove(pos): the deque without the element at pos; unchanged when
\* pos is out of bounds
RemoveAt(q, pos) ==
    IF pos \in 1..Len(q)
    THEN [i \in 1..(Len(q) - 1) |-> IF i < pos THEN q[i] ELSE q[i + 1]]
    ELSE q

\* a touch that leaves the key's old position in the deque
RemoveKeyKeepsOld(q, k) == q

\* if let Some(pos) = order.iter().position(..) { order.remove(pos); }
RemoveKey(q, k) ==
    IF IsSome(Position(q, k)) THEN RemoveAt(q, Unwrap(Position(q, k))) ELSE q

\* a push at the least-recently-used end (push_front)
PushFront(q, k) == <<k>> \o q

PushBack(q, k) == Append(q, k)

\* an eviction that takes the back of the deque (pop_back)
PopBack(q) ==
    IF Len(q) > 0
    THEN [item |-> Some(q[Len(q)]), rest |-> SubSeq(q, 1, Len(q) - 1)]
    ELSE [item |-> None, rest |-> q]

\* order.pop_front(): the front element, if any, and the deque left
PopFront(q) ==
    IF Len(q) > 0
    THEN [item |-> Some(q[1]), rest |-> Tail(q)]
    ELSE [item |-> None, rest |-> q]

\* ------------------------------------------------------------ RwLock
\* a write() that is granted whatever guards are out
CanWriteAlways == TRUE

\* a write() that does not wait for the read guards to be dropped
CanWriteIgnoresReaders == writers = {}

CanWrite == writers = {} /\ readers = {}
\* a read() that is granted while a write guard is out
CanReadAlways == TRUE

CanRead == writers = {}

\* ------------------------------------------------------------ history
Snapshot == [map |-> map, order |-> order]

\* k becomes the most recently touched key; ranks stay 1..n
Touch(s, k) ==
    LET d == (DOMAIN s) \cup {k}
        older(x) == {y \in (DOMAIN s) \ {k} : x = k \/ s[y] < s[x]}
    IN  [x \in d |-> Cardinality(older(x)) + 1]

Forget(s, k) ==
    LET d == (DOMAIN s) \ {k}
    IN  [x \in d |-> Cardinality({y \in d : s[y] < s[x]}) + 1]

\* ------------------------------------------- the linked-list cache
\* The classic O(1) design: a hash map from each key to its node, the nodes
\* in a doubly linked list from the least (head) to the most (tail)
\* recently used.  A node is named by its key; 0 is the null link.
LLEmpty ==
    [head |-> 0, tail |-> 0, next |-> EmptyMap, prev |-> EmptyMap, val |-> EmptyMap]

NoOut == [ret |-> None, evicted |-> None]

\* unlink node k: its neighbours are linked to each other
LLUnlink(l, k) ==
    LET p == l.prev[k]
        n == l.next[k]
        nodes == (DOMAIN l.next) \ {k}
    IN  [l EXCEPT
          !.head = IF p = 0 THEN n ELSE l.head,
          !.tail = IF n = 0 THEN p ELSE l.tail,
          !.next = [x \in nodes |-> IF x = p THEN n ELSE l.next[x]],
          !.prev = [x \in nodes |-> IF x = n THEN p ELSE l.prev[x]]]

\* link node k after the tail
LLPushBack(l, k) ==
    LET nodes == (DOMAIN l.next) \cup {k}
    IN  [l EXCEPT
          !.head = IF l.tail = 0 THEN k ELSE l.head,
          !.tail = k,
          !.next = [x \in nodes |-> IF x = k THEN 0
                                     ELSE IF x = l.tail THEN k ELSE l.next[x]],
          !.prev = [x \in nodes |-> IF x = k THEN l.tail ELSE l.prev[x]]]

LLLen(l) == Cardinality(DOMAIN l.val)

LLGet(l, k) ==
    IF k \in DOMAIN l.val
    THEN [list |-> LLPushBack(LLUnlink(l, k), k),
          out |-> [ret |-> Some(l.val[k]), evicted |-> None]]
    ELSE [list |-> l, out |-> NoOut]

LLPut(l, k, v) ==
    IF k \in DOMAIN l.val
    THEN [list |-> LLPushBack(LLUnlink([l EXCEPT !.val[k] = v], k), k),
          out |-> NoOut]
    ELSE IF LLLen(l) >= capacity /\ l.head # 0
    THEN LET e == l.head
             cut == LLUnlink(l, e)
             less == [cut EXCEPT !.val = [x \in (DOMAIN l.val) \ {e} |-> l.val[x]]]
             more == [less EXCEPT !.val = [x \in (DOMAIN less.val) \cup {k} |->
                                              IF x = k THEN v ELSE less.val[x]]]
         IN  [list |-> LLPushBack(more, k),
              out |-> [ret |-> None, evicted |-> Some(e)]]
    ELSE LET more == [l EXCEPT !.val = [x \in (DOMAIN l.val) \cup {k} |->
                                           IF x = k THEN v ELSE l.val[x]]]
         IN  [list |-> LLPushBack(more, k), out |-> NoOut]

\* ------------------------------------------------------------ Init
Init ==
    /\ built = "no"
    /\ capacity = 0
    /\ map = EmptyMap
    /\ order = << >>
    /\ writers = {}
    /\ readers = {}
    /\ poisoned = FALSE
    /\ pc = [t \in Threads |-> "idle"]
    /\ key = [t \in Threads |-> 0]
    /\ value = [t \in Threads |-> 0]
    /\ lru_key = [t \in Threads |-> None]
    /\ ret = [t \in Threads |-> None]
    /\ pre = [t \in Threads |-> None]
    /\ committed = [map |-> EmptyMap, order |-> << >>]
    /\ stamp = EmptyMap
    /\ lastPut = [k \in Keys |-> None]
    /\ recentPut = 0
    /\ ll = LLEmpty
    /\ llout = [t \in Threads |-> NoOut]

\* a constructor without the assertion on the capacity
NewUnchecked(c) ==
    /\ built = "no"
    /\ built' = "yes" /\ capacity' = c
    /\ UNCHANGED <<map, order, writers, readers, poisoned, pc, key, value, lru_key, ret>>
    /\ UNCHANGED <<histVars, refVars>>

\* LruCache::new(capacity): assert!(capacity > 0); Self { .. }
New(c) ==
    /\ built = "no"
    /\ IF c > 0
       THEN built' = "yes" /\ capacity' = c
       ELSE built' = "panicked" /\ capacity' = capacity
    /\ UNCHANGED <<map, order, writers, readers, poisoned, pc, key, value, lru_key, ret>>
    /\ UNCHANGED <<histVars, refVars>>

\* ------------------------------------------------------------ get
\* thread t calls get(&k): let mut state = self.inner.write().unwrap();
\* (a call that finds the lock taken blocks in write(): the step is not enabled)
GetLock(t, k) ==
    /\ built = "yes" /\ pc[t] = "idle"
    /\ CanWrite
    /\ IF poisoned
       THEN \* write() hands back a PoisonError and unwrap() panics
            /\ pc' = [pc EXCEPT ![t] = "panicked"]
            /\ UNCHANGED <<key, writers, pre, refVars>>
       ELSE /\ key' = [key EXCEPT ![t] = k]
            /\ writers' = writers \cup {t}
            /\ pre' = [pre EXCEPT ![t] = Some(Snapshot)]
            /\ ll' = LLGet(ll, k).list
            /\ llout' = [llout EXCEPT ![t] = LLGet(ll, k).out]
            /\ pc' = [pc EXCEPT ![t] = "get_lookup"]
    /\ UNCHANGED <<map, order, readers, poisoned, value, lru_key, ret>>
    /\ UNCHANGED <<cacheVars, committed, stamp, lastPut, recentPut>>

\* a lookup whose miss still records the key as used
GetLookupMissTouches(t) ==
    /\ pc[t] = "get_lookup"
    /\ IF IsSome(MapGet(map, key[t]))
       THEN /\ value' = [value EXCEPT ![t] = Unwrap(MapGet(map, key[t]))]
            /\ pc' = [pc EXCEPT ![t] = "get_remove"]
            /\ ret' = ret
            /\ order' = order
       ELSE /\ ret' = [ret EXCEPT ![t] = None]
            /\ pc' = [pc EXCEPT ![t] = "get_ret"]
            /\ value' = value
            /\ order' = PushBack(RemoveKey(order, key[t]), key[t])
    /\ UNCHANGED <<map, key, lru_key>>
    /\ UNCHANGED <<cacheVars, lockVars, histVars, refVars>>

\* a lookup by index (state.map[key]), which panics on a missing key: the
\* write guard is dropped by the unwinding and the lock is poisoned
GetLookupIndexPanics(t) ==
    /\ pc[t] = "get_lookup"
    /\ IF IsSome(MapGet(map, key[t]))
       THEN /\ value' = [value EXCEPT ![t] = Unwrap(MapGet(map, key[t]))]
            /\ pc' = [pc EXCEPT ![t] = "get_remove"]
            /\ UNCHANGED <<writers, poisoned, pre>>
       ELSE /\ pc' = [pc EXCEPT ![t] = "panicked"]
            /\ writers' = writers \ {t}
            /\ poisoned' = TRUE
            /\ pre' = [pre EXCEPT ![t] = None]
            /\ value' = value
    /\ UNCHANGED <<map, order, readers, key, lru_key, ret>>
    /\ UNCHANGED <<cacheVars, committed, stamp, lastPut, recentPut, refVars>>

\* a lookup that takes the entry out of the table (map.remove(key))
GetLookupTakes(t) ==
    /\ pc[t] = "get_lookup"
    /\ IF IsSome(MapGet(map, key[t]))
       THEN /\ value' = [value EXCEPT ![t] = Unwrap(MapGet(map, key[t]))]
            /\ map' = MapRemove(map, key[t])
            /\ pc' = [pc EXCEPT ![t] = "get_remove"]
            /\ ret' = ret
       ELSE /\ ret' = [ret EXCEPT ![t] = None]
            /\ pc' = [pc EXCEPT ![t] = "get_ret"]
            /\ value' = value
            /\ map' = map
    /\ UNCHANGED <<order, key, lru_key>>
    /\ UNCHANGED <<cacheVars, lockVars, histVars, refVars>>

\* if let Some(value) = state.map.get(key).cloned() { .. } else { None }
GetLookup(t) ==
    /\ pc[t] = "get_lookup"
    /\ IF IsSome(MapGet(map, key[t]))
       THEN /\ value' = [value EXCEPT ![t] = Unwrap(MapGet(map, key[t]))]
            /\ pc' = [pc EXCEPT ![t] = "get_remove"]
            /\ ret' = ret
       ELSE /\ ret' = [ret EXCEPT ![t] = None]
            /\ pc' = [pc EXCEPT ![t] = "get_ret"]
            /\ value' = value
    /\ UNCHANGED <<map, order, key, lru_key>>
    /\ UNCHANGED <<cacheVars, lockVars, histVars, refVars>>

\* if let Some(pos) = state.order.iter().position(..) { state.order.remove(pos); }
GetRemove(t) ==
    /\ pc[t] = "get_remove"
    /\ order' = RemoveKey(order, key[t])
    /\ pc' = [pc EXCEPT ![t] = "get_push"]
    /\ UNCHANGED <<map, key, value, lru_key, ret>>
    /\ UNCHANGED <<cacheVars, lockVars, histVars, refVars>>

\* state.order.push_back(key.clone()); Some(value)
GetPush(t) ==
    /\ pc[t] = "get_push"
    /\ order' = PushBack(order, key[t])
    /\ ret' = [ret EXCEPT ![t] = Some(value[t])]
    /\ stamp' = Touch(stamp, key[t])
    /\ pc' = [pc EXCEPT ![t] = "get_ret"]
    /\ UNCHANGED <<map, key, value, lru_key>>
    /\ UNCHANGED <<cacheVars, lockVars, pre, committed, lastPut, recentPut, refVars>>

\* a get that returns without dropping its write guard (mem::forget)
GetReturnKeepsGuard(t) ==
    /\ pc[t] = "get_ret"
    /\ committed' = Snapshot
    /\ pre' = [pre EXCEPT ![t] = None]
    /\ pc' = [pc EXCEPT ![t] = "idle"]
    /\ key' = [key EXCEPT ![t] = 0]
    /\ value' = [value EXCEPT ![t] = 0]
    /\ ret' = [ret EXCEPT ![t] = None]
    /\ UNCHANGED <<map, order, writers, readers, poisoned, lru_key>>
    /\ llout' = [llout EXCEPT ![t] = NoOut]
    /\ UNCHANGED <<cacheVars, stamp, lastPut, recentPut, ll>>

\* the end of get: the write guard is dropped and the result handed back
GetReturn(t) ==
    /\ pc[t] = "get_ret"
    /\ writers' = writers \ {t}
    /\ committed' = Snapshot
    /\ pre' = [pre EXCEPT ![t] = None]
    /\ pc' = [pc EXCEPT ![t] = "idle"]
    /\ key' = [key EXCEPT ![t] = 0]
    /\ value' = [value EXCEPT ![t] = 0]
    /\ ret' = [ret EXCEPT ![t] = None]
    /\ UNCHANGED <<map, order, readers, poisoned, lru_key>>
    /\ llout' = [llout EXCEPT ![t] = NoOut]
    /\ UNCHANGED <<cacheVars, stamp, lastPut, recentPut, ll>>

\* ------------------------------------------------------------ put
\* thread t calls put(k, v): let mut state = self.inner.write().unwrap();
PutLock(t, k, v) ==
    /\ built = "yes" /\ pc[t] = "idle"
    /\ CanWrite
    /\ IF poisoned
       THEN \* write() hands back a PoisonError and unwrap() panics
            /\ pc' = [pc EXCEPT ![t] = "panicked"]
            /\ UNCHANGED <<key, value, writers, pre, refVars>>
       ELSE /\ key' = [key EXCEPT ![t] = k]
            /\ value' = [value EXCEPT ![t] = v]
            /\ writers' = writers \cup {t}
            /\ pre' = [pre EXCEPT ![t] = Some(Snapshot)]
            /\ ll' = LLPut(ll, k, v).list
            /\ llout' = [llout EXCEPT ![t] = LLPut(ll, k, v).out]
            /\ pc' = [pc EXCEPT ![t] = "put_check"]
    /\ UNCHANGED <<map, order, readers, poisoned, lru_key, ret>>
    /\ UNCHANGED <<cacheVars, committed, stamp, lastPut, recentPut>>

\* if state.map.contains_key(&key) { .. }
PutCheck(t) ==
    /\ pc[t] = "put_check"
    /\ pc' = [pc EXCEPT ![t] =
                IF ContainsKey(map, key[t]) THEN "put_upd_insert" ELSE "put_cap"]
    /\ UNCHANGED <<map, order, key, value, lru_key, ret>>
    /\ UNCHANGED <<cacheVars, lockVars, histVars, refVars>>

\* state.map.insert(key.clone(), value);
PutUpdInsert(t) ==
    /\ pc[t] = "put_upd_insert"
    /\ map' = MapInsert(map, key[t], value[t])
    /\ pc' = [pc EXCEPT ![t] = "put_upd_remove"]
    /\ UNCHANGED <<order, key, value, lru_key, ret>>
    /\ UNCHANGED <<cacheVars, lockVars, histVars, refVars>>

\* if let Some(pos) = state.order.iter().position(..) { state.order.remove(pos); }
PutUpdRemove(t) ==
    /\ pc[t] = "put_upd_remove"
    /\ order' = RemoveKey(order, key[t])
    /\ pc' = [pc EXCEPT ![t] = "put_upd_push"]
    /\ UNCHANGED <<map, key, value, lru_key, ret>>
    /\ UNCHANGED <<cacheVars, lockVars, histVars, refVars>>

\* state.order.push_back(key); return;
PutUpdPush(t) ==
    /\ pc[t] = "put_upd_push"
    /\ order' = PushBack(order, key[t])
    /\ stamp' = Touch(stamp, key[t])
    /\ pc' = [pc EXCEPT ![t] = "put_ret"]
    /\ UNCHANGED <<map, key, value, lru_key, ret>>
    /\ UNCHANGED <<cacheVars, lockVars, pre, committed, lastPut, recentPut, refVars>>

\* a capacity test that is late by one entry
AtCapacityLate(m) == MapLen(m) = capacity + 1

\* a capacity test that is early by one entry
AtCapacityEarly(m) == MapLen(m) + 1 >= capacity

\* state.map.len() == self.capacity
AtCapacity(m) == MapLen(m) = capacity

\* if state.map.len() == self.capacity { .. }
PutCap(t) ==
    /\ pc[t] = "put_cap"
    /\ pc' = [pc EXCEPT ![t] =
                IF AtCapacity(map) THEN "put_pop" ELSE "put_insert"]
    /\ UNCHANGED <<map, order, key, value, lru_key, ret>>
    /\ UNCHANGED <<cacheVars, lockVars, histVars, refVars>>

\* if let Some(lru_key) = state.order.pop_front() { .. }
PutPop(t) ==
    /\ pc[t] = "put_pop"
    /\ lru_key' = [lru_key EXCEPT ![t] = PopFront(order).item]
    /\ order' = PopFront(order).rest
    /\ pc' = [pc EXCEPT ![t] =
                IF IsSome(PopFront(order).item) THEN "put_evict" ELSE "put_insert"]
    /\ UNCHANGED <<map, key, value, ret>>
    /\ UNCHANGED <<cacheVars, lockVars, histVars, refVars>>

\* state.map.remove(&lru_key);
PutEvict(t) ==
    /\ pc[t] = "put_evict"
    /\ map' = MapRemove(map, Unwrap(lru_key[t]))
    /\ stamp' = Forget(stamp, Unwrap(lru_key[t]))
    /\ pc' = [pc EXCEPT ![t] = "put_insert"]
    /\ UNCHANGED <<order, key, value, lru_key, ret>>
    /\ UNCHANGED <<cacheVars, lockVars, pre, committed, lastPut, recentPut, refVars>>

\* state.map.insert(key.clone(), value);
PutInsert(t) ==
    /\ pc[t] = "put_insert"
    /\ map' = MapInsert(map, key[t], value[t])
    /\ pc' = [pc EXCEPT ![t] = "put_push"]
    /\ UNCHANGED <<order, key, value, lru_key, ret>>
    /\ UNCHANGED <<cacheVars, lockVars, histVars, refVars>>

\* state.order.push_back(key);
PutPush(t) ==
    /\ pc[t] = "put_push"
    /\ order' = PushBack(order, key[t])
    /\ stamp' = Touch(stamp, key[t])
    /\ pc' = [pc EXCEPT ![t] = "put_ret"]
    /\ UNCHANGED <<map, key, value, lru_key, ret>>
    /\ UNCHANGED <<cacheVars, lockVars, pre, committed, lastPut, recentPut, refVars>>

\* the end of put: the write guard is dropped
PutReturn(t) ==
    /\ pc[t] = "put_ret"
    /\ writers' = writers \ {t}
    /\ committed' = Snapshot
    /\ lastPut' = [lastPut EXCEPT ![key[t]] = Some(value[t])]
    /\ recentPut' = key[t]
    /\ pre' = [pre EXCEPT ![t] = None]
    /\ pc' = [pc EXCEPT ![t] = "idle"]
    /\ key' = [key EXCEPT ![t] = 0]
    /\ value' = [value EXCEPT ![t] = 0]
    /\ lru_key' = [lru_key EXCEPT ![t] = None]
    /\ UNCHANGED <<map, order, readers, poisoned, ret>>
    /\ llout' = [llout EXCEPT ![t] = NoOut]
    /\ UNCHANGED <<cacheVars, stamp, ll>>

\* ------------------------------------------------------------ len
\* thread t calls len(): self.inner.read().unwrap()
LenLock(t) ==
    /\ built = "yes" /\ pc[t] = "idle"
    /\ CanRead
    /\ IF poisoned
       THEN \* read() hands back a PoisonError and unwrap() panics
            /\ pc' = [pc EXCEPT ![t] = "panicked"]
            /\ UNCHANGED <<readers, pre, llout>>
       ELSE /\ readers' = readers \cup {t}
            /\ pre' = [pre EXCEPT ![t] = Some(Snapshot)]
            /\ llout' = [llout EXCEPT ![t] = [ret |-> Some(LLLen(ll)), evicted |-> None]]
            /\ pc' = [pc EXCEPT ![t] = "len_read"]
    /\ UNCHANGED <<map, order, writers, poisoned, key, value, lru_key, ret>>
    /\ UNCHANGED <<cacheVars, committed, stamp, lastPut, recentPut, ll>>

\* a len that reports the capacity instead of the number of entries
LenReadCapacity(t) ==
    /\ pc[t] = "len_read"
    /\ ret' = [ret EXCEPT ![t] = Some(capacity)]
    /\ pc' = [pc EXCEPT ![t] = "len_ret"]
    /\ UNCHANGED <<map, order, key, value, lru_key>>
    /\ UNCHANGED <<cacheVars, lockVars, histVars, refVars>>

\* .map.len()
LenRead(t) ==
    /\ pc[t] = "len_read"
    /\ ret' = [ret EXCEPT ![t] = Some(MapLen(map))]
    /\ pc' = [pc EXCEPT ![t] = "len_ret"]
    /\ UNCHANGED <<map, order, key, value, lru_key>>
    /\ UNCHANGED <<cacheVars, lockVars, histVars, refVars>>

\* the end of len: the read guard is dropped and the size handed back
LenReturn(t) ==
    /\ pc[t] = "len_ret"
    /\ readers' = readers \ {t}
    /\ pc' = [pc EXCEPT ![t] = "idle"]
    /\ ret' = [ret EXCEPT ![t] = None]
    /\ pre' = [pre EXCEPT ![t] = None]
    /\ llout' = [llout EXCEPT ![t] = NoOut]
    /\ UNCHANGED <<map, order, writers, poisoned, key, value, lru_key>>
    /\ UNCHANGED <<cacheVars, committed, stamp, lastPut, recentPut, ll>>

\* ------------------------------------------------------------ Next
Next ==
    \/ \E c \in Capacities : New(c)
    \/ \E t \in Threads, k \in Keys : GetLock(t, k)
    \/ \E t \in Threads : GetLookup(t)
    \/ \E t \in Threads : GetRemove(t)
    \/ \E t \in Threads : GetPush(t)
    \/ \E t \in Threads : GetReturn(t)
    \/ \E t \in Threads, k \in Keys, v \in Values : PutLock(t, k, v)
    \/ \E t \in Threads : PutCheck(t)
    \/ \E t \in Threads : PutUpdInsert(t)
    \/ \E t \in Threads : PutUpdRemove(t)
    \/ \E t \in Threads : PutUpdPush(t)
    \/ \E t \in Threads : PutCap(t)
    \/ \E t \in Threads : PutPop(t)
    \/ \E t \in Threads : PutEvict(t)
    \/ \E t \in Threads : PutInsert(t)
    \/ \E t \in Threads : PutPush(t)
    \/ \E t \in Threads : PutReturn(t)
    \/ \E t \in Threads : LenLock(t)
    \/ \E t \in Threads : LenRead(t)
    \/ \E t \in Threads : LenReturn(t)

Spec == Init /\ [][Next]_vars

\* the steps of thread t's call once its guard is granted
Body(t) ==
    \/ GetLookup(t) \/ GetRemove(t) \/ GetPush(t) \/ GetReturn(t)
    \/ PutCheck(t) \/ PutUpdInsert(t) \/ PutUpdRemove(t) \/ PutUpdPush(t)
    \/ PutCap(t) \/ PutPop(t) \/ PutEvict(t) \/ PutInsert(t) \/ PutPush(t)
    \/ PutReturn(t)
    \/ LenRead(t) \/ LenReturn(t)

\* thread t enters a call: write() or read() is granted
Acquire(t) ==
    \/ \E k \in Keys : GetLock(t, k)
    \/ \E k \in Keys, v \in Values : PutLock(t, k, v)
    \/ LenLock(t)

\* every thread that holds a guard keeps running (threads are scheduled
\* fairly; nothing in a critical section waits)
FairSpec == Spec /\ \A t \in Threads : WF_vars(Body(t))

\* ------------------------------------------------------------ properties
Quiescent == writers = {}
SetOf(q) == {q[i] : i \in 1..Len(q)}
NoDuplicates(q) == \A i, j \in 1..Len(q) : q[i] = q[j] => i = j
Without(q, k) == LET keep(x) == x # k IN SelectSeq(q, keep)
Evicted == {k \in Keys : IsSome(lastPut[k]) /\ k \notin DOMAIN map}

\* C1: for a cache built with capacity C >= 1, every value len() returns,
\* whatever calls the threads have made and however they interleaved, is at
\* most C (and, a usize, at least 0).
C1_LenWithinCapacity ==
    \A t \in Threads :
        pc[t] = "len_ret" =>
            /\ capacity >= 1
            /\ IsSome(ret[t])
            /\ Unwrap(ret[t]) \in 0..capacity

\* len() returns the capacity itself, after an eviction has taken place
C1_Witness ==
    \E t \in Threads :
        /\ pc[t] = "len_ret"
        /\ ret[t] = Some(capacity)
        /\ capacity >= 2
        /\ Evicted # {}

\* C2: whenever no get or put is in progress, the keys of the lookup table
\* are exactly the keys of the recency sequence, and no key is in the
\* sequence twice (so the sequence is as long as the table is large).
C2_TableMatchesSequence ==
    Quiescent =>
        /\ DOMAIN map = SetOf(order)
        /\ NoDuplicates(order)
        /\ Len(order) = MapLen(map)

\* a quiescent full cache of two or more keys that has evicted a key
C2_Witness ==
    /\ Quiescent
    /\ capacity >= 2
    /\ Len(order) = capacity
    /\ Evicted # {}
    /\ order[1] > order[2]

\* C3: when put makes room in a full cache, the key it evicts is the
\* resident key whose most recent touch (a put of it, or a get that hit it)
\* is older than the most recent touch of every other resident key.
C3_EvictsLeastRecentlyTouched ==
    \A t \in Threads :
        pc[t] = "put_evict" =>
            /\ IsSome(lru_key[t])
            /\ Unwrap(lru_key[t]) \in DOMAIN stamp
            /\ \A j \in (DOMAIN map) \ {Unwrap(lru_key[t])} :
                   /\ j \in DOMAIN stamp
                   /\ stamp[Unwrap(lru_key[t])] < stamp[j]

\* capacity 2, keys 1 and 2 resident with 1 touched last: put(3) evicts 2
C3_Witness ==
    \E t \in Threads :
        /\ pc[t] = "put_evict"
        /\ capacity = 2
        /\ key[t] = 3
        /\ DOMAIN map = {1, 2}
        /\ 1 \in DOMAIN stamp /\ 2 \in DOMAIN stamp
        /\ stamp[2] < stamp[1]
        /\ lru_key[t] = Some(2)

\* the state thread t's write guard was granted on
Pre(t) == Unwrap(pre[t])
GetDone(t) == pc[t] = "get_ret" /\ IsSome(pre[t])
PutDone(t) == pc[t] = "put_ret" /\ IsSome(pre[t])
Hit(t) == key[t] \in DOMAIN Pre(t).map
Occurrences(q, k) == Cardinality({i \in 1..Len(q) : q[i] = k})

\* C4: get(k) on a resident key returns k's stored value and moves k to the
\* back of the recency sequence: k is then the last element, appears once,
\* and the other keys keep their relative order.
C4_GetHitMovesToBack ==
    \A t \in Threads :
        (GetDone(t) /\ Hit(t)) =>
            /\ ret[t] = Some(Pre(t).map[key[t]])
            /\ Len(order) >= 1
            /\ order[Len(order)] = key[t]
            /\ Occurrences(order, key[t]) = 1
            /\ Without(order, key[t]) = Without(Pre(t).order, key[t])
            /\ Len(order) = Len(Pre(t).order)

\* a hit on the key at the front of a sequence of two or more keys
C4_Witness ==
    \E t \in Threads :
        /\ GetDone(t) /\ Hit(t)
        /\ Len(Pre(t).order) >= 2
        /\ Pre(t).order[1] = key[t]
        /\ order # Pre(t).order

\* C5: get(k) on a key that is not resident returns nothing and leaves the
\* lookup table, the recency sequence (hence the next eviction's choice) and
\* the size exactly as they were.
C5_GetMissChangesNothing ==
    \A t \in Threads :
        (GetDone(t) /\ ~Hit(t)) =>
            /\ ret[t] = None
            /\ map = Pre(t).map
            /\ order = Pre(t).order
            /\ MapLen(map) = MapLen(Pre(t).map)
            /\ PopFront(order) = PopFront(Pre(t).order)

\* a miss on a key that was evicted, in a full cache
C5_Witness ==
    \E t \in Threads :
        /\ GetDone(t) /\ ~Hit(t)
        /\ key[t] \in Evicted
        /\ MapLen(map) = capacity

\* C6: put(k, v) on a resident key overwrites k's value with v and moves k
\* to the back of the recency sequence; the table keeps its keys and size,
\* nothing is evicted (even from a full cache) and every other key keeps
\* its value.
C6_PutUpdateKeepsOthers ==
    \A t \in Threads :
        (PutDone(t) /\ Hit(t)) =>
            /\ DOMAIN map = DOMAIN Pre(t).map
            /\ map[key[t]] = value[t]
            /\ \A j \in (DOMAIN map) \ {key[t]} : map[j] = Pre(t).map[j]
            /\ lru_key[t] = None
            /\ order = Append(Without(Pre(t).order, key[t]), key[t])
            /\ Len(order) = Len(Pre(t).order)

\* an update, with a new value, of the front key of a full cache
C6_Witness ==
    \E t \in Threads :
        /\ PutDone(t) /\ Hit(t)
        /\ capacity >= 2
        /\ MapLen(Pre(t).map) = capacity
        /\ Pre(t).order[1] = key[t]
        /\ Pre(t).map[key[t]] # value[t]

\* C7: put(k, v) of a non-resident key into a full cache removes exactly
\* one entry, the front key of the recency sequence, from the sequence and
\* from the table, then inserts k at the back; the size is again the
\* capacity, and no put evicts more than one entry.
C7_PutFullEvictsFront ==
    \A t \in Threads :
        PutDone(t) =>
            /\ Cardinality((DOMAIN Pre(t).map) \ (DOMAIN map)) <= 1
            /\ (~Hit(t) /\ MapLen(Pre(t).map) = capacity) =>
                   /\ Len(Pre(t).order) >= 1
                   /\ lru_key[t] = Some(Pre(t).order[1])
                   /\ (DOMAIN Pre(t).map) \ (DOMAIN map) = {Pre(t).order[1]}
                   /\ DOMAIN map =
                          ((DOMAIN Pre(t).map) \ {Pre(t).order[1]}) \cup {key[t]}
                   /\ order = Append(Tail(Pre(t).order), key[t])
                   /\ map[key[t]] = value[t]
                   /\ \A j \in (DOMAIN map) \ {key[t]} : map[j] = Pre(t).map[j]
                   /\ MapLen(map) = capacity

\* a new key put into a full cache of two keys
C7_Witness ==
    \E t \in Threads :
        /\ PutDone(t) /\ ~Hit(t)
        /\ capacity >= 2
        /\ MapLen(Pre(t).map) = capacity
        /\ IsSome(lru_key[t])

\* C8: put(k, v) of a non-resident key into a cache below capacity evicts
\* nothing: the resident keys stay, with their values and their order, k is
\* appended at the back and the size grows by one.
C8_PutBelowCapacityAppends ==
    \A t \in Threads :
        (PutDone(t) /\ ~Hit(t) /\ MapLen(Pre(t).map) < capacity) =>
            /\ lru_key[t] = None
            /\ DOMAIN map = (DOMAIN Pre(t).map) \cup {key[t]}
            /\ map[key[t]] = value[t]
            /\ \A j \in DOMAIN Pre(t).map : map[j] = Pre(t).map[j]
            /\ order = Append(Pre(t).order, key[t])
            /\ MapLen(map) = MapLen(Pre(t).map) + 1

\* a second key put into a cache of capacity two or more
C8_Witness ==
    \E t \in Threads :
        /\ PutDone(t) /\ ~Hit(t)
        /\ MapLen(Pre(t).map) >= 1
        /\ MapLen(Pre(t).map) < capacity
        /\ Len(order) = Len(Pre(t).order) + 1

\* C9: for every capacity C >= 1 and every prior state, when put(k, v)
\* completes k is resident with value v; a get(k) with no other put in
\* between hits and returns v, and a get that hits always returns the value
\* of the most recent put of its key.
C9_GetReturnsLastPut ==
    \A t \in Threads :
        /\ PutDone(t) =>
               /\ capacity >= 1
               /\ ContainsKey(map, key[t])
               /\ MapGet(map, key[t]) = Some(value[t])
        /\ (GetDone(t) /\ key[t] = recentPut) =>
               /\ IsSome(ret[t])
               /\ ret[t] = lastPut[key[t]]
        /\ (GetDone(t) /\ IsSome(ret[t])) => ret[t] = lastPut[key[t]]

\* capacity 1: a get of the key put last, whose first value was overwritten
\* after another key had displaced it
C9_Witness ==
    \E t \in Threads :
        /\ GetDone(t)
        /\ capacity = 1
        /\ key[t] = recentPut
        /\ ret[t] = Some(2)
        /\ Cardinality(Evicted) >= 1

\* the sequential cache of the specification: get and put as single steps
SeqGet(s, k) ==
    IF k \in DOMAIN s.map
    THEN [map |-> s.map, order |-> Append(Without(s.order, k), k),
          ret |-> Some(s.map[k])]
    ELSE [map |-> s.map, order |-> s.order, ret |-> None]

SeqPut(s, k, v) ==
    IF k \in DOMAIN s.map
    THEN [map |-> [s.map EXCEPT ![k] = v],
          order |-> Append(Without(s.order, k), k)]
    ELSE IF Cardinality(DOMAIN s.map) >= capacity
    THEN [map |-> [x \in ((DOMAIN s.map) \ {Head(s.order)}) \cup {k} |->
                      IF x = k THEN v ELSE s.map[x]],
          order |-> Append(Tail(s.order), k)]
    ELSE [map |-> [x \in (DOMAIN s.map) \cup {k} |-> IF x = k THEN v ELSE s.map[x]],
          order |-> Append(s.order, k)]

\* C10: the calls are linearized.  Every get and put runs on the state the
\* last completed get or put left and takes it to the state, and returns
\* the result, of the sequential cache's single step; every len returns the
\* size of such a state; and no call is handed a table and sequence that
\* another call has only partly updated.
C10_Linearized ==
    /\ Quiescent => Snapshot = committed
    /\ \A t \in Threads :
        /\ IsSome(pre[t]) => Pre(t) = committed
        /\ GetDone(t) =>
               [map |-> map, order |-> order, ret |-> ret[t]]
                   = SeqGet(Pre(t), key[t])
        /\ PutDone(t) => Snapshot = SeqPut(Pre(t), key[t], value[t])
        /\ pc[t] \in {"len_read", "len_ret"} => Snapshot = committed
        /\ pc[t] = "len_ret" => ret[t] = Some(MapLen(committed.map))

\* a put that has evicted and inserted holds the lock, the table and the
\* sequence differ from the last committed state, and the other threads
\* are outside the lock
C10_Witness ==
    \E t \in Threads :
        /\ PutDone(t)
        /\ IsSome(lru_key[t])
        /\ capacity >= 2
        /\ Snapshot # committed
        /\ \A u \in Threads \ {t} : pc[u] = "idle"

\* C11: constructing a cache with capacity 0 fails (the assertion on the
\* capacity panics): no cache exists afterwards, so no call ever runs and
\* nothing is stored; every cache that does exist has a capacity >= 1, is
\* empty until the first put, and answers len() with 0 until then.
C11_ZeroCapacityRejected ==
    /\ built = "yes" => capacity >= 1
    /\ built # "yes" =>
           /\ capacity = 0
           /\ \A t \in Threads : pc[t] = "idle"
           /\ writers = {} /\ readers = {}
           /\ map = EmptyMap /\ order = << >>
    /\ (built = "yes" /\ recentPut = 0 /\ Quiescent) =>
           MapLen(map) = 0 /\ order = << >>
    /\ \A t \in Threads :
           (pc[t] = "len_ret" /\ recentPut = 0) => ret[t] = Some(0)

\* new(0) has panicked
C11_Witness ==
    /\ built = "panicked"
    /\ capacity = 0
    /\ \A t \in Threads : pc[t] = "idle"

\* C12: on a cache built with a valid capacity no get, put or len ever
\* fails: no thread panics, the lock is never poisoned, and so every lock
\* acquisition succeeds (a call that has started holds its guard).
C12_NoCallFails ==
    built = "yes" =>
        /\ ~poisoned
        /\ \A t \in Threads :
               /\ pc[t] # "panicked"
               /\ pc[t] # "idle" => t \in writers \cup readers

\* a put has been granted the lock after earlier puts, one of which evicted
C12_Witness ==
    \E t \in Threads :
        /\ pc[t] = "put_check"
        /\ t \in writers
        /\ ~poisoned
        /\ recentPut # 0
        /\ Evicted # {}

LenDone(t) == pc[t] = "len_ret" /\ IsSome(pre[t])

\* C13: len() returns the number of resident entries and changes nothing:
\* the lookup table and the recency sequence (hence the key the next put
\* would evict) are, when len is about to return, what they were when it
\* took the lock.
C13_LenReadsOnly ==
    \A t \in Threads :
        /\ pc[t] = "len_ret" => IsSome(pre[t])
        /\ LenDone(t) =>
               /\ ret[t] = Some(MapLen(Pre(t).map))
               /\ map = Pre(t).map
               /\ order = Pre(t).order
               /\ PopFront(order).item = PopFront(Pre(t).order).item

\* len() of a cache holding one key of a capacity of two or more
C13_Witness ==
    \E t \in Threads :
        /\ LenDone(t)
        /\ ret[t] = Some(1)
        /\ capacity >= 2
        /\ Len(order) = 1

GetPcs == {"get_lookup", "get_remove", "get_push", "get_ret"}
PutPcs == {"put_check", "put_upd_insert", "put_upd_remove", "put_upd_push",
           "put_cap", "put_pop", "put_evict", "put_insert", "put_push", "put_ret"}
LenPcs == {"len_read", "len_ret"}
InCritical(t) == pc[t] \in GetPcs \cup PutPcs \cup LenPcs

\* C14 as stated: get, put and len all take the lock in exclusive mode, so
\* no two calls of any kind, two len calls included, are inside their
\* critical sections at the same time.
C14_AllExclusive ==
    /\ \A t \in Threads : InCritical(t) <=> t \in writers \cup readers
    /\ \A t, u \in Threads : (InCritical(t) /\ InCritical(u)) => t = u

\* C14 as amended: get and put hold the lock in write mode, and len holds
\* the same lock in read mode, from before they touch the table and the
\* sequence until they return; while a get or put is inside its critical
\* section no other call of any kind is inside its own (two len calls may
\* be inside together).
C14_WriteExclusiveReadShared ==
    /\ \A t \in Threads :
        /\ pc[t] \in GetPcs \cup PutPcs <=> t \in writers
        /\ pc[t] \in LenPcs <=> t \in readers
        /\ pc[t] \in GetPcs \cup PutPcs =>
               \A u \in Threads \ {t} : ~InCritical(u)
    /\ (map # committed.map \/ order # committed.order) => writers # {}

\* two len calls hold their read guards together, neither has read yet
C14_Witness ==
    \E t, u \in Threads :
        /\ t # u
        /\ pc[t] = "len_read" /\ pc[u] = "len_read"
        /\ {t, u} \subseteq readers
        /\ writers = {}

\* no call inside its critical section is blocked, no thread that holds a
\* guard asks for the lock again, and a thread that cannot be granted the
\* lock is kept out by a call that can take a step
NoDeadlock ==
    built = "yes" =>
        \A t \in Threads :
            /\ InCritical(t) => ENABLED Body(t)
            /\ t \in writers \cup readers => ~ENABLED Acquire(t)
            /\ pc[t] = "idle" =>
                   \/ ENABLED Acquire(t)
                   \/ \E u \in Threads \ {t} : InCritical(u) /\ ENABLED Body(u)

\* C15: the cache cannot deadlock.  In every reachable state each call
\* that is under way can take a step and each thread outside is either
\* granted the lock or waits for a call that can take a step; no call asks
\* for the lock while it holds it; and, threads being scheduled fairly,
\* every call that has been granted the lock completes and gives it back.
C15_NoDeadlock ==
    /\ []NoDeadlock
    /\ \A t \in Threads :
           InCritical(t) ~> (pc[t] = "idle" /\ t \notin writers \cup readers)

\* a put holds the lock and another thread's call would have to wait
C15_Witness ==
    \E t, u \in Threads :
        /\ t # u
        /\ pc[t] = "put_pop" /\ t \in writers
        /\ pc[u] = "idle"
        /\ ~ENABLED Acquire(u)
        /\ ENABLED Body(t)

\* the keys of the linked list, from the head along the next links
RECURSIVE LLFrom(_, _, _)
LLFrom(l, k, n) ==
    IF k = 0 \/ n = 0 \/ k \notin DOMAIN l.next
    THEN << >>
    ELSE <<k>> \o LLFrom(l, l.next[k], n - 1)

LLWalk(l) == LLFrom(l, l.head, NumKeys + 1)

\* C16: the deque-and-scan cache and the linked-list cache, given the same
\* calls in the same order, answer every get and every len alike and evict
\* the same key (or none) in every put; between calls they hold the same
\* keys with the same values in the same recency order.
C16_SameAsLinkedList ==
    /\ \A t \in Threads :
        /\ GetDone(t) => ret[t] = llout[t].ret
        /\ LenDone(t) => ret[t] = llout[t].ret
        /\ PutDone(t) => lru_key[t] = llout[t].evicted
    /\ Quiescent =>
        /\ ll.val = map
        /\ LLWalk(ll) = order
        /\ ll.tail = (IF Len(order) = 0 THEN 0 ELSE order[Len(order)])

\* both caches have evicted the same key, the middle one of three in the
\* order of their puts, after a hit had moved the first key to the back
C16_Witness ==
    \E t \in Threads :
        /\ PutDone(t)
        /\ capacity = 2
        /\ llout[t].evicted = Some(2)
        /\ lru_key[t] = Some(2)
        /\ LLWalk(ll) = <<1, 3>>
        /\ order = <<1, 3>>

\* C17: put evicts before it inserts, so the table never holds more than
\* capacity entries in any state, the states between two statements of a
\* put that holds the lock included: a table of capacity + 1 entries is
\* never reached.
C17_NeverAboveCapacity ==
    built = "yes" =>
        /\ MapLen(map) <= capacity
        /\ MapLen(map) # capacity + 1
        /\ \A t \in Threads :
               pc[t] \in {"put_insert", "put_push"} /\ IsSome(lru_key[t]) =>
                   MapLen(map) = capacity - (IF pc[t] = "put_insert" THEN 1 ELSE 0)

\* inside a put into a full cache, after the eviction and before the insert
C17_Witness ==
    \E t \in Threads :
        /\ pc[t] = "put_insert"
        /\ IsSome(lru_key[t])
        /\ capacity >= 2
        /\ MapLen(map) = capacity - 1
        /\ MapLen(Pre(t).map) = capacity

\* C18: len() never decreases over the life of a cache: the table left by
\* a completed call is never smaller than the one left by the call before
\* it, and once it holds capacity entries it holds capacity entries after
\* every later call.
C18_LenNeverDecreases ==
    [][/\ MapLen(committed'.map) >= MapLen(committed.map)
       /\ (built = "yes" /\ MapLen(committed.map) = capacity) =>
              MapLen(committed'.map) = capacity
       /\ \A t \in Threads :
              (pc'[t] = "len_ret" /\ pc[t] = "len_read") =>
                  ret'[t] = Some(MapLen(committed.map))]_vars

\* a full cache of two or more keys, idle, whose last put evicted a key
C18_Witness ==
    /\ built = "yes"
    /\ capacity >= 2
    /\ \A t \in Threads : pc[t] = "idle"
    /\ MapLen(committed.map) = capacity
    /\ recentPut \in DOMAIN map
    /\ Evicted # {}
    /\ order[Len(order)] = recentPut

\* C19: get never changes the lookup table: from the grant of its lock to
\* its return, hit or miss, the resident keys and their values are what
\* they were; a table that differs from the last committed one is in the
\* hands of a put.
C19_GetLeavesTable ==
    /\ \A t \in Threads :
           (pc[t] \in GetPcs /\ IsSome(pre[t])) =>
               /\ DOMAIN map = DOMAIN Pre(t).map
               /\ \A k \in DOMAIN map : map[k] = Pre(t).map[k]
    /\ map # committed.map => \E t \in Threads : pc[t] \in PutPcs

\* a get that hit has moved its key, and the table is as it was
C19_Witness ==
    \E t \in Threads :
        /\ GetDone(t) /\ Hit(t)
        /\ order # Pre(t).order
        /\ map = Pre(t).map
        /\ MapLen(map) >= 2

\* C20: under the reader-writer lock a get or put (write mode) never holds
\* the lock together with any other get, put or len, whereas several len
\* calls (read mode) may hold it together; so every len() result is the
\* size of a table that no get or put is partway through updating.
C20_WritersAloneReadersShare ==
    /\ \A t \in writers : writers = {t} /\ readers = {}
    /\ readers # {} => writers = {}
    /\ \A t \in Threads :
           pc[t] \in LenPcs =>
               /\ t \in readers
               /\ \A u \in Threads : pc[u] \notin GetPcs \cup PutPcs
               /\ DOMAIN map = SetOf(order)
               /\ pc[t] = "len_ret" => ret[t] = Some(Len(order))

\* two len calls hold the lock together; one has its result, the other not
C20_Witness ==
    \E t, u \in Threads :
        /\ t # u
        /\ {t, u} \subseteq readers
        /\ pc[t] = "len_ret" /\ pc[u] = "len_read"
        /\ ret[t] = Some(capacity)

====
